---- MODULE Spec2Model ----
(***************************************************************************)
(* The configuration tree of tardis/gui.py: ConfigEditor.matchDicts merges *)
(* the user configuration into the template, TreeModel builds the Node     *)
(* tree from the merged template, TreeDelegate.setModelData commits edits  *)
(* and selection changes, TreeModel.setData writes one field.              *)
(*                                                                         *)
(* Python values are modelled as follows.                                  *)
(*   str          a sequence of tokens; the separator '|_:_|' is a token   *)
(*   dict         [t |-> "dict", items |-> sequence of [k, v]] in          *)
(*                iteration order                                          *)
(*   [req, x]     [t |-> "list", req |-> req, v |-> x]                     *)
(*   scalar       [t |-> "scalar", s |-> str]                              *)
(*   list object  [t |-> "ref", id |-> i], the list itself being lists[i]: *)
(*                lists are shared by reference between the template and   *)
(*                the nodes that were constructed from them                *)
(* Nodes are numbered in creation order, node 1 is the root, parent 0 is   *)
(* None.                                                                   *)
(***************************************************************************)
EXTENDS Integers, Sequences, FiniteSets, TLC

VARIABLES
    pc,                 \* where ConfigEditor.__init__ is: "start", "merged" (after
                        \* line 350), "ready" (after line 355), "error" (raised)
    configDict,         \* line 260
    templatedictionary, \* lines 261-349
    lists,              \* the list objects: option lists and Node.data lists
    parent,             \* Node.parent, 0 for None
    children,           \* Node.children
    data,               \* Node.data: the list object the node holds
    siblings,           \* Node.siblings
    disabledNodes,      \* TreeModel.disabledNodes
    typenodes,          \* TreeModel.typenodes
    given,              \* the template and the list objects as __init__ found them
    last,               \* the call that completed last, with the state it found
    built,              \* lists and disabledNodes as TreeModel.__init__ left them
    edits,              \* number of edits committed, see MaxEdits
    win                 \* the Tardis main window: its constructor's arguments and
                        \* outcome, self.mode and what show_model and the view
                        \* switches set (lines 87-235)

vars == <<pc, configDict, templatedictionary, lists,
          parent, children, data, siblings, disabledNodes, typenodes,
          given, last, built, edits, win>>

-----------------------------------------------------------------------------
(* Bounds *)

MaxEdits == 1

MaxCount == 3

MaxDisabled == 8

\* how far past the last child or field a row or column is taken
Beyond == 2

-----------------------------------------------------------------------------
(* Python strings and lists *)

SEP == "|_:_|"

Range(s) == {s[i] : i \in 1..Len(s)}

\* list.index(x): position of the first occurrence, 0 when there is none
IndexOf(s, x) ==
    IF x \in Range(s) THEN CHOOSE i \in 1..Len(s) : s[i] = x /\ \A j \in 1..(i-1) : s[j] # x
    ELSE 0

\* str.split(sep)
RECURSIVE split(_, _)
split(str, sep) ==
    LET i == IndexOf(str, sep)
    IN  IF i = 0 THEN <<str>>
        ELSE <<SubSeq(str, 1, i - 1)>> \o split(SubSeq(str, i + 1, Len(str)), sep)

\* list.remove(x): drops the first occurrence of x
remove(s, x) ==
    LET i == IndexOf(s, x)
    IN  IF i = 0 THEN s ELSE SubSeq(s, 1, i - 1) \o SubSeq(s, i + 1, Len(s))

-----------------------------------------------------------------------------
(* Template and configuration literals *)

Dict(items) == [t |-> "dict", items |-> items]
Item(k, v) == [k |-> <<k>>, v |-> v]
Scalar(w) == [t |-> "scalar", s |-> <<w>>]
Leaf(req, w) == [t |-> "list", req |-> req, v |-> Scalar(w)]
Options(req, id) == [t |-> "list", req |-> req, v |-> [t |-> "ref", id |-> id]]

\* position of key in the dict, 0 when absent
KeyIndex(d, key) ==
    IF \E i \in 1..Len(d.items) : d.items[i].k = key
    THEN CHOOSE i \in 1..Len(d.items) : d.items[i].k = key
    ELSE 0

HasKey(d, key) == KeyIndex(d, key) # 0

Get(d, key) == d.items[KeyIndex(d, key)].v

\* d[key] = v
Put(d, key, v) ==
    IF HasKey(d, key)
    THEN [d EXCEPT !.items[KeyIndex(d, key)].v = v]
    ELSE [d EXCEPT !.items = Append(@, [k |-> key, v |-> v])]

-----------------------------------------------------------------------------
(* ConfigEditor.matchDicts *)

\* the option names: the first segment of every option string
optionNames(optlist) == [i \in 1..Len(optlist) |-> split(optlist[i], SEP)[1]]

\* (mutation: the selected option is not moved)
swapFirstSkipped(optlist, indexofselected) == optlist

\* exchange the first option and the one at indexofselected, in place
swapFirst(optlist, indexofselected) ==
    [optlist EXCEPT ![1] = optlist[indexofselected], ![indexofselected] = optlist[1]]

\* (mutation: an unknown option name is let through)
matchOptionLenient(optlist, optionselected) ==
    LET options == optionNames(optlist)
    IN  IF optionselected.t = "scalar" /\ optionselected.s \in Range(options)
        THEN [raised |-> FALSE, l |-> swapFirst(optlist, IndexOf(options, optionselected.s))]
        ELSE [raised |-> FALSE, l |-> optlist]

\* the option-list branch: [raised, l], l being the option list afterwards
\* (optionselected is the user's value: only a str can equal an option name)
matchOption(optlist, optionselected) ==
    LET options == optionNames(optlist)
    IN  IF optionselected.t = "scalar" /\ optionselected.s \in Range(options)
        THEN [raised |-> FALSE, l |-> swapFirst(optlist, IndexOf(options, optionselected.s))]
        ELSE [raised |-> TRUE, l |-> optlist]

\* (mutation: a key the template lacks is entered as a required one)
toappendRequired(value) == [t |-> "list", req |-> TRUE, v |-> value]

\* lines 438-439: the entry made for a key the template lacks, [False, value]
toappend(value) == [t |-> "list", req |-> FALSE, v |-> value]

\* matchDicts(dict1, dict2) with the list objects h: [raised, d, h], where d and
\* h are dict2 and the list objects as the call leaves them (also when it raises)
RECURSIVE matchDicts(_, _, _), matchKeys(_, _, _)

\* (mutation: a required key the user omits is reported as an error)
matchDictsStrict(dict1, dict2, h) ==
    IF \E i \in 1..Len(dict2.items) :
          /\ dict2.items[i].v.t = "list"
          /\ dict2.items[i].v.req
          /\ ~HasKey(dict1, dict2.items[i].k)
    THEN [raised |-> TRUE, d |-> dict2, h |-> h]
    ELSE matchKeys(dict1, 1, [raised |-> FALSE, d |-> dict2, h |-> h])

matchDicts(dict1, dict2, h) ==
    matchKeys(dict1, 1, [raised |-> FALSE, d |-> dict2, h |-> h])

matchKeys(dict1, i, st) ==
    IF st.raised \/ i > Len(dict1.items) THEN st
    ELSE
      LET key == dict1.items[i].k
          val1 == dict1.items[i].v
          dict2 == st.d
          next ==
            IF HasKey(dict2, key)
            THEN LET val2 == Get(dict2, key)
                 IN  IF val2.t = "dict"
                     THEN LET r == matchDicts(val1, val2, st.h)
                          IN  [raised |-> r.raised, d |-> Put(dict2, key, r.d), h |-> r.h]
                     ELSE IF val2.t = "list"
                     THEN IF val2.v.t = "ref"
                          THEN LET r == matchOption(st.h[val2.v.id], val1)
                               IN  [raised |-> r.raised, d |-> dict2,
                                    h |-> [st.h EXCEPT ![val2.v.id] = r.l]]
                          ELSE st
                     ELSE [st EXCEPT !.d = Put(dict2, key, val1)]
            ELSE [st EXCEPT !.d = Put(dict2, key, toappend(val1))]
      IN  matchKeys(dict1, i + 1, next)

-----------------------------------------------------------------------------
(* Node and TreeModel construction *)

\* The tree under construction is the record
\*   [parent, children, data, siblings, lists, typenodes, disabledNodes]

\* Node(data) for a list object that exists already: the new node is Len(parent)
Node(tr, id) ==
    [tr EXCEPT !.parent = Append(@, 0), !.children = Append(@, <<>>),
               !.data = Append(@, id), !.siblings = Append(@, <<>>)]

\* Node([x, ...]): the list is a new object
NodeOf(tr, list) ==
    Node([tr EXCEPT !.lists = Append(@, list)], Len(tr.lists) + 1)

\* (mutation: the child is listed twice)
appendChildTwice(tr, node, child) ==
    [tr EXCEPT !.children[node] = Append(Append(@, child), child),
               !.parent[child] = node]

appendChild(tr, node, child) ==
    [tr EXCEPT !.children[node] = Append(@, child), !.parent[child] = node]

\* (mutation: the key of every [required, default] entry is recorded)
isTypeKeyAlways(key) == TRUE

\* line 663: if key == 'type'
isTypeKey(key) == key = <<"type">>

RECURSIVE treeFromNode(_, _, _), treeFromItems(_, _, _, _)
treeFromNode(dictionary, root, tr) == treeFromItems(dictionary, 1, root, tr)

treeFromItems(dictionary, i, root, tr) ==
    IF i > Len(dictionary.items) THEN tr
    ELSE
      LET key == dictionary.items[i].k
          val == dictionary.items[i].v
          t1 == NodeOf(tr, <<key>>)
          child == Len(t1.parent)
          t2 == appendChild(t1, root, child)
          t3 == IF val.t = "dict" THEN treeFromNode(val, child, t2)
                ELSE IF val.t = "list"
                THEN LET t4 == IF val.v.t = "ref" THEN Node(t2, val.v.id)
                               ELSE NodeOf(t2, <<val.v.s>>)
                         leaf == Len(t4.parent)
                         t5 == appendChild(t4, child, leaf)
                     IN  IF isTypeKey(key)
                         THEN [t5 EXCEPT !.typenodes = Append(@, child)]
                         ELSE t5
                ELSE t2
      IN  treeFromItems(dictionary, i + 1, root, t3)

\* sibsdict of dictToTree: first field -> child, a later child replacing an
\* earlier one of the same name
sibsdictOf(tr, p) ==
    LET ch == tr.children[p]
        name(i) == tr.lists[tr.data[ch[i]]][1]
    IN  [k \in {name(i) : i \in 1..Len(ch)} |->
            ch[CHOOSE i \in 1..Len(ch) :
                 name(i) = k /\ \A j \in (i+1)..Len(ch) : name(j) # k]]

\* the nodes named by the parameter segments, those that name no sibling skipped
RECURSIVE sibslistOf(_, _, _)

\* (mutation: only the first parameter segment is looked up)
sibslistOfFirst(sibstrings, j, sibsdict) ==
    IF j > Len(sibstrings) THEN <<>>
    ELSE IF sibstrings[j] \in DOMAIN sibsdict THEN <<sibsdict[sibstrings[j]]>> ELSE <<>>

sibslistOf(sibstrings, j, sibsdict) ==
    IF j > Len(sibstrings) THEN <<>>
    ELSE (IF sibstrings[j] \in DOMAIN sibsdict THEN <<sibsdict[sibstrings[j]]>> ELSE <<>>)
         \o sibslistOf(sibstrings, j + 1, sibsdict)

\* siblings[name] = sibslist
SetKey(f, name, v) == [k \in DOMAIN f \cup {name} |-> IF k = name THEN v ELSE f[k]]

\* the first loop over the columns of a type leaf (lines 630-639)
RECURSIVE linkColumns(_, _, _, _)
linkColumns(tr, typesleaf, sibsdict, i) ==
    IF i > Len(tr.lists[tr.data[typesleaf]]) THEN tr
    ELSE
      LET sibstrings == split(tr.lists[tr.data[typesleaf]][i], SEP)
          t1 == [tr EXCEPT !.lists[tr.data[typesleaf]][i] = sibstrings[1],
                           !.siblings[typesleaf] =
                               SetKey(@, sibstrings[1], sibslistOf(sibstrings, 2, sibsdict))]
      IN  linkColumns(t1, typesleaf, sibsdict, i + 1)

\* the second loop (lines 643-646), for i in range(1, numColumns): columns are
\* counted from 1 here, so it starts at 2
RECURSIVE disableColumns(_, _, _)
disableColumns(tr, typesleaf, i) ==
    IF i > Len(tr.lists[tr.data[typesleaf]]) THEN tr
    ELSE
      LET key == tr.lists[tr.data[typesleaf]][i]
      IN  disableColumns([tr EXCEPT !.disabledNodes = @ \o tr.siblings[typesleaf][key]],
                         typesleaf, i + 1)

RECURSIVE linkTypenodes(_, _)
linkTypenodes(tr, k) ==
    IF k > Len(tr.typenodes) THEN tr
    ELSE
      LET node == tr.typenodes[k]
          typesleaf == tr.children[node][1]
          t1 == linkColumns(tr, typesleaf, sibsdictOf(tr, tr.parent[node]), 1)
      IN  linkTypenodes(disableColumns(t1, typesleaf, 2), k + 1)

dictToTree(dictionary, root, tr) == linkTypenodes(treeFromNode(dictionary, root, tr), 1)

\* TreeModel(dictionary): the root, the empty lists, then dictToTree
TreeModel(dictionary, h) ==
    LET t0 == NodeOf([parent |-> <<>>, children |-> <<>>, data |-> <<>>,
                      siblings |-> <<>>, lists |-> h, typenodes |-> <<>>,
                      disabledNodes |-> <<>>], <<<<"column A">>>>)
    IN  dictToTree(dictionary, 1, t0)

-----------------------------------------------------------------------------
(* Node fields, and the changes TreeDelegate.setModelData makes *)

None == <<"<None>">>

numColumns(list) == Len(list)

\* Node.getData(i), i counted from 0 as in the source: a negative i counts from
\* the end, and None stands for an index outside the list
getData(list, i) ==
    IF 0 <= i /\ i < Len(list) THEN list[i + 1]
    ELSE IF i < 0 /\ -i <= Len(list) THEN list[Len(list) + i + 1]
    ELSE None

\* Node.setData(column, value), column counted from 0: the value it returns
setDataResult(list, column) == ~(column < 0 \/ column >= numColumns(list))

\* (mutation: no test for a negative column, which then counts from the end)
setDataNoLowerBound(list, column, value) ==
    IF column >= numColumns(list) THEN list
    ELSE IF column >= 0 THEN [list EXCEPT ![column + 1] = value]
    ELSE IF -column <= Len(list) THEN [list EXCEPT ![Len(list) + column + 1] = value]
    ELSE list

\* ... and the list afterwards
setData(list, column, value) ==
    IF setDataResult(list, column) THEN [list EXCEPT ![column + 1] = value] ELSE list

\* (mutation: the former first item is not written back)
swapFieldsFirstOnly(list, selectedIndex, currentText) == setData(list, 0, currentText)

\* lines 870-872 and 876-878: currentText to column 0, the former first item to
\* the selected column
swapFields(list, selectedIndex, currentText) ==
    setData(setData(list, 0, currentText), selectedIndex, getData(list, 0))

\* (mutation: the siblings of the former selection are not disabled)
disableItemsSkipped(disabled, itemsToDisable) == disabled

\* lines 883-884
disableItems(disabled, itemsToDisable) == disabled \o itemsToDisable

\* (mutation: the siblings of the new selection are not enabled)
enableItemsSkipped(disabled, itemsToEnable) == disabled

\* (mutation: enabling the new selection clears the whole list)
enableItemsClearing(disabled, itemsToEnable) == <<>>

\* lines 886-888
RECURSIVE enableItems(_, _)
enableItems(disabled, itemsToEnable) ==
    IF itemsToEnable = <<>> THEN disabled
    ELSE enableItems(IF Head(itemsToEnable) \in Range(disabled)
                     THEN remove(disabled, Head(itemsToEnable))
                     ELSE disabled,
                     Tail(itemsToEnable))

\* lines 880-888; a name that is no key of sibs raises KeyError at line 880 or
\* 881, before the disabled nodes are touched
toggleSiblings(disabled, sibs, firstItem, currentText) ==
    IF firstItem \in DOMAIN sibs /\ currentText \in DOMAIN sibs
    THEN enableItems(disableItems(disabled, sibs[firstItem]), sibs[currentText])
    ELSE disabled

-----------------------------------------------------------------------------
(* Tardis, the top level window *)

\* no Tardis(...) call has been made yet
NoWindow ==
    [state |-> "none", config |-> None, atom_data |-> None, mode |-> None,
     modeLabel |-> None, successLabel |-> None, viewMdvChecked |-> FALSE,
     viewFormChecked |-> FALSE, count |-> 0, currentIndex |-> -1,
     central |-> FALSE, model |-> None, maximized |-> FALSE]

\* lines 128-131
modeOf(config) == IF config # None THEN <<"active">> ELSE <<"passive">>

\* (mutation: the hard stop of the active mode is taken out)
activeRaisesNever(mode) == FALSE

\* lines 190 and 201: the active mode raises TemporarilyUnavaliable
activeRaises(mode) == mode = <<"active">>

\* QStackedWidget.setCurrentIndex: an index with no widget is ignored
setCurrentIndex(w, index) ==
    IF 0 <= index /\ index < w.count THEN [w EXCEPT !.currentIndex = index] ELSE w

\* what the constructor may be given
Configs == { None, <<"tardis_example.yml">>, <<"w7.yml">> }

AtomData == { None, <<"kurucz_cd23_chianti_H_He.h5">> }

\* the models show_model may be given: [converged]
Models == { [converged |-> TRUE], [converged |-> FALSE] }

-----------------------------------------------------------------------------
(* The configurations and templates the model starts from *)

\* 'a|_:_|b|_:_|c' from <<"a", "b", "c">>
RECURSIVE optionString(_)
optionString(parts) ==
    IF Len(parts) = 1 THEN <<parts[1]>>
    ELSE <<parts[1], SEP>> \o optionString(Tail(parts))

UserList(id) == [t |-> "ref", id |-> id]

\* the example of the specification: a density with two variants
DensityCase(user) ==
    [T |-> Dict(<<Item("density", Dict(<<
                Item("type", Options(TRUE, 1)),
                Item("value", Leaf(TRUE, "<None>")),
                Item("time_0", Leaf(TRUE, "<None>")),
                Item("rho_0", Leaf(TRUE, "<None>"))>>))>>),
     L |-> <<  <<optionString(<<"uniform", "value">>),
                 optionString(<<"exponential", "time_0", "rho_0">>)>>  >>,
     U |-> user]

\* lines 261 and 291-304: three variants with disjoint parameters, one of them
\* naming the same sibling three times, one naming a key that is no sibling
W7Case(user) ==
    [T |-> Dict(<<Item("tardis_config_version", Leaf(TRUE, "v1.0")),
                  Item("density", Dict(<<
                    Item("type", Options(TRUE, 1)),
                    Item("w7_time_0", Leaf(FALSE, "0.000231481 day")),
                    Item("time_0", Leaf(TRUE, "<None>")),
                    Item("rho_0", Leaf(TRUE, "<None>")),
                    Item("value", Leaf(TRUE, "<None>"))>>))>>),
     L |-> <<  <<optionString(<<"branch85_w7", "w7_time_0", "w7_time_0", "w7_time_0">>),
                 optionString(<<"exponential", "time_0", "rho_0", "v_0">>),
                 optionString(<<"uniform", "value">>)>>  >>,
     U |-> user]

\* lines 312-346: two variants that share parameters, one a nested mapping, next
\* to a mapping of bare values
ConvergenceCase(user) ==
    [T |-> Dict(<<Item("montecarlo", Dict(<<
                Item("seed", Leaf(FALSE, "23111963")),
                Item("black_body_sampling", Dict(<<Item("start", Scalar("1 angstrom"))>>)),
                Item("convergence_strategy", Dict(<<
                    Item("type", Options(TRUE, 1)),
                    Item("damping_constant", Leaf(FALSE, "0.5")),
                    Item("threshold", Leaf(TRUE, "<None>")),
                    Item("t_inner", Dict(<<
                        Item("damping_constant", Leaf(FALSE, "0.5"))>>))>>))>>))>>),
     L |-> <<  <<optionString(<<"damped", "damping_constant", "t_inner">>),
                 optionString(<<"specific", "threshold", "t_inner",
                                "damping_constant">>)>>  >>,
     U |-> user]

\* lines 278-281: a default that is an empty list; list 2 is a list of the user
NlteCase(user) ==
    [T |-> Dict(<<Item("plasma", Dict(<<
                Item("ionization", Leaf(TRUE, "<None>")),
                Item("nlte", Dict(<<
                    Item("species", Options(FALSE, 1)),
                    Item("coronal_approximation", Leaf(FALSE, "False"))>>))>>))>>),
     L |-> << <<>>, << <<"H">>, <<"He">> >> >>,
     U |-> user]

\* lines 261 and 312-319: a mapping of bare values, none of them a
\* [required, default]
SamplingCase(user) ==
    [T |-> Dict(<<Item("tardis_config_version", Leaf(TRUE, "v1.0")),
                  Item("montecarlo", Dict(<<
                Item("seed", Leaf(FALSE, "23111963")),
                Item("black_body_sampling", Dict(<<
                    Item("start", Scalar("1 angstrom")),
                    Item("stop", Scalar("1000000 angstrom")),
                    Item("num", Scalar("1.e+6"))>>))>>))>>),
     L |-> << >>,
     U |-> user]

\* lines 283-305: a choice whose option 'specific' has the nested mapping
\* density, itself with a choice, among its parameters; lists 1 and 2
StructureCase(user) ==
    [T |-> Dict(<<Item("model", Dict(<<Item("structure", Dict(<<
                Item("type", Options(TRUE, 1)),
                Item("filename", Leaf(TRUE, "<None>")),
                Item("velocity", Leaf(TRUE, "<None>")),
                Item("density", Dict(<<
                    Item("type", Options(TRUE, 2)),
                    Item("time_0", Leaf(TRUE, "<None>")),
                    Item("value", Leaf(TRUE, "<None>"))>>))>>))>>))>>),
     L |-> <<  <<optionString(<<"file", "filename">>),
                 optionString(<<"specific", "velocity", "density">>)>>,
               <<optionString(<<"exponential", "time_0">>),
                 optionString(<<"uniform", "value">>)>>  >>,
     U |-> user]

Cases ==
    { DensityCase(Dict(<<Item("density", Dict(<<Item("type", Scalar("exponential")),
                                                Item("time_0", Scalar("5")),
                                                Item("rho_0", Scalar("2"))>>))>>)),
      DensityCase(Dict(<<Item("density", Dict(<<Item("type", Scalar("linear"))>>))>>)),
      W7Case(Dict(<<>>)),
      W7Case(Dict(<<Item("tardis_config_version", Scalar("v2.0")),
                    Item("density", Dict(<<Item("type", Scalar("uniform")),
                                           Item("value", Scalar("1"))>>)),
                    Item("comment", Scalar("x"))>>)),
      W7Case(Dict(<<Item("density", Dict(<<Item("comment", Scalar("x")),
                                           Item("type", Scalar("linear"))>>))>>)),
      StructureCase(Dict(<<Item("model", Dict(<<Item("structure", Dict(<<
            Item("type", Scalar("specific"))>>))>>))>>)),
      SamplingCase(Dict(<<>>)),
      SamplingCase(Dict(<<Item("montecarlo", Dict(<<Item("type", Scalar("x"))>>))>>)),
      SamplingCase(Dict(<<Item("montecarlo", Dict(<<
            Item("black_body_sampling", Dict(<<Item("num", Scalar("100")),
                                               Item("unit", Scalar("angstrom"))>>))>>))>>)),
      ConvergenceCase(Dict(<<>>)),
      ConvergenceCase(Dict(<<Item("montecarlo", Dict(<<
            Item("black_body_sampling", Dict(<<Item("start", Scalar("2 angstrom"))>>)),
            Item("convergence_strategy", Dict(<<Item("type", Scalar("specific")),
                                               Item("threshold", Scalar("0.05"))>>))>>))>>)),
      ConvergenceCase(Dict(<<Item("montecarlo", Dict(<<
            Item("seed", Scalar("1")),
            Item("convergence_strategy", Dict(<<Item("type", Scalar("adaptive"))>>))>>))>>)),
      NlteCase(Dict(<<>>)),
      NlteCase(Dict(<<Item("elements", UserList(2))>>)),
      NlteCase(Dict(<<Item("plasma", Dict(<<Item("nlte", Dict(<<
            Item("species", Scalar("Si 2"))>>))>>))>>)) }

\* what a line edit commits, and what TreeModel.setData is given besides the
\* fields the node holds already
EditTexts == { <<"5">> }

-----------------------------------------------------------------------------
(* State *)

NoOp == [op |-> "none", node |-> 0, column |-> 0, firstItem |-> None,
         currentText |-> None, oldData |-> <<>>, oldDisabled |-> <<>>,
         result |-> FALSE, emitted |-> FALSE, n |-> 0]

Init ==
    /\ pc = "start"
    /\ \E c \in Cases :
          /\ configDict = c.U
          /\ templatedictionary = c.T
          /\ lists = c.L
          /\ given = [T |-> c.T, L |-> c.L]
    /\ parent = <<>>
    /\ children = <<>>
    /\ data = <<>>
    /\ siblings = <<>>
    /\ disabledNodes = <<>>
    /\ typenodes = <<>>
    /\ last = NoOp
    /\ built = [lists |-> <<>>, disabledNodes |-> <<>>]
    /\ edits = 0
    /\ win = NoWindow

treeVars == <<parent, children, data, siblings, disabledNodes, typenodes>>

Nodes == 1..Len(parent)

Count(n) == IF n < MaxCount THEN n + 1 ELSE MaxCount

\* ConfigEditor.__init__, line 350: an IOError leaves __init__, and the tree of
\* line 355 is never made
MatchDicts ==
    /\ pc = "start"
    /\ LET r == matchDicts(configDict, templatedictionary, lists)
       IN  /\ templatedictionary' = r.d
           /\ lists' = r.h
           /\ pc' = IF r.raised THEN "error" ELSE "merged"
           /\ last' = [NoOp EXCEPT !.op = "merge", !.result = ~r.raised]
    /\ UNCHANGED <<configDict, given, win, treeVars, built, edits>>

\* ConfigEditor.__init__, line 355
MakeTree ==
    /\ pc = "merged"
    /\ LET tr == TreeModel(templatedictionary, lists)
       IN  /\ parent' = tr.parent
           /\ children' = tr.children
           /\ data' = tr.data
           /\ siblings' = tr.siblings
           /\ lists' = tr.lists
           /\ typenodes' = tr.typenodes
           /\ disabledNodes' = tr.disabledNodes
           /\ built' = [lists |-> tr.lists, disabledNodes |-> tr.disabledNodes]
    /\ pc' = "ready"
    /\ last' = [NoOp EXCEPT !.op = "build", !.result = TRUE]
    /\ UNCHANGED <<configDict, given, win, templatedictionary, edits>>

\* (mutation: only the node itself is looked up in disabledNodes)
flagsOwnOnly(node) ==
    IF node \in Range(disabledNodes)
    THEN {}
    ELSE IF Len(children[node]) = 0
    THEN {"ItemIsEditable", "ItemIsEnabled", "ItemIsSelectable"}
    ELSE {"ItemIsEnabled", "ItemIsSelectable"}

\* TreeModel.flags for the index of a node
flags(node) ==
    IF parent[node] \in Range(disabledNodes) \/ node \in Range(disabledNodes)
    THEN {}
    ELSE IF Len(children[node]) = 0
    THEN {"ItemIsEditable", "ItemIsEnabled", "ItemIsSelectable"}
    ELSE {"ItemIsEnabled", "ItemIsSelectable"}

\* the view opens an editor, and so calls the delegate, for editable items only
Editable(node) == "ItemIsEditable" \in flags(node)

IsTypeLeaf(node) == getData(lists[data[parent[node]]], 0) = <<"type">>

\* TreeDelegate.setModelData for a combo box under a key other than 'type'
setModelDataOption(node, selectedIndex) ==
    /\ pc = "ready"
    /\ Editable(node)
    /\ numColumns(lists[data[node]]) > 1
    /\ ~IsTypeLeaf(node)
    /\ LET list == lists[data[node]]
           currentText == getData(list, selectedIndex)
       IN  /\ lists' = [lists EXCEPT ![data[node]] =
                            swapFields(list, selectedIndex, currentText)]
           /\ last' = [op |-> "option", node |-> node, column |-> selectedIndex,
                       firstItem |-> getData(list, 0), currentText |-> currentText,
                       oldData |-> list, oldDisabled |-> disabledNodes,
                       result |-> TRUE, emitted |-> FALSE, n |-> Count(last.n)]
    /\ UNCHANGED <<pc, configDict, given, win, templatedictionary, parent, children, data,
                   siblings, disabledNodes, typenodes, built, edits>>

\* TreeDelegate.setModelData for the combo box of a 'type' key
setModelDataType(node, selectedIndex) ==
    /\ pc = "ready"
    /\ Editable(node)
    /\ numColumns(lists[data[node]]) > 1
    /\ IsTypeLeaf(node)
    /\ Len(disabledNodes) <= MaxDisabled
    /\ LET list == lists[data[node]]
           currentText == getData(list, selectedIndex)
           firstItem == getData(list, 0)
       IN  /\ lists' = [lists EXCEPT ![data[node]] =
                            swapFields(list, selectedIndex, currentText)]
           /\ disabledNodes' =
                  toggleSiblings(disabledNodes, siblings[node], firstItem, currentText)
           /\ last' = [op |-> "type", node |-> node, column |-> selectedIndex,
                       firstItem |-> firstItem, currentText |-> currentText,
                       oldData |-> list, oldDisabled |-> disabledNodes,
                       result |-> TRUE, emitted |-> FALSE, n |-> Count(last.n)]
    /\ UNCHANGED <<pc, configDict, given, win, templatedictionary, parent, children, data,
                   siblings, typenodes, built, edits>>

\* TreeDelegate.setModelData for a line edit
setModelDataText(node, text) ==
    /\ pc = "ready"
    /\ Editable(node)
    /\ numColumns(lists[data[node]]) <= 1
    /\ edits < MaxEdits
    /\ edits' = edits + 1
    /\ LET list == lists[data[node]]
       IN  /\ lists' = [lists EXCEPT ![data[node]] = setData(list, 0, text)]
           /\ last' = [op |-> "text", node |-> node, column |-> 0,
                       firstItem |-> getData(list, 0), currentText |-> text,
                       oldData |-> list, oldDisabled |-> disabledNodes,
                       result |-> setDataResult(list, 0), emitted |-> FALSE,
                       n |-> Count(last.n)]
    /\ UNCHANGED <<pc, configDict, given, win, templatedictionary, treeVars, built>>

\* TreeModel.setData(index, value) with the edit role
TreeModelSetData(node, column, value) ==
    /\ pc = "ready"
    /\ edits < MaxEdits
    /\ edits' = edits + 1
    /\ LET list == lists[data[node]]
       IN  /\ lists' = [lists EXCEPT ![data[node]] = setData(list, column, value)]
           /\ last' = [op |-> "setData", node |-> node, column |-> column,
                       firstItem |-> getData(list, 0), currentText |-> value,
                       oldData |-> list, oldDisabled |-> disabledNodes,
                       result |-> setDataResult(list, column),
                       emitted |-> setDataResult(list, column), n |-> Count(last.n)]
    /\ UNCHANGED <<pc, configDict, given, win, templatedictionary, treeVars, built>>

Columns(node) == 0..(numColumns(lists[data[node]]) - 1)

\* the handlers of the editor as the delegate drives them
Next ==
    \/ MatchDicts
    \/ MakeTree
    \/ \E node \in Nodes \ {1} : \E selectedIndex \in Columns(node) :
          setModelDataOption(node, selectedIndex)
    \/ \E node \in Nodes \ {1} : \E selectedIndex \in Columns(node) :
          setModelDataType(node, selectedIndex)
    \/ \E node \in Nodes \ {1} : \E text \in EditTexts :
          setModelDataText(node, text)

Spec == Init /\ [][Next]_vars

\* Tardis.__init__(parent=None, config, atom_data), lines 87-204: the widgets
\* are made for either mode; the active mode raises before the central widget
\* is set, and the object under construction is dropped
TardisInit(config, atom_data) ==
    /\ win.state = "none"
    /\ LET mode == modeOf(config)
           made == [NoWindow EXCEPT
                      !.config = config, !.atom_data = atom_data, !.mode = mode,
                      !.successLabel = <<"Calculation did not converge">>,
                      !.modeLabel = <<"Passive mode">>,
                      !.viewMdvChecked = TRUE,
                      !.count = 1, !.currentIndex = 0]
       IN  win' = IF activeRaises(mode)
                  THEN [made EXCEPT !.state = "raised"]
                  ELSE [made EXCEPT !.state = "constructed", !.central = TRUE]
    /\ UNCHANGED <<pc, configDict, templatedictionary, lists, treeVars,
                   given, last, built, edits>>

\* Tardis.show_model(model), lines 206-226, for a model object (the default
\* None raises AttributeError at line 217 before anything is set)
show_model(model) ==
    /\ win.state = "constructed"
    /\ win' = [win EXCEPT
                 !.model = model,
                 !.successLabel = IF model.converged THEN <<"converged">> ELSE @,
                 !.modeLabel = IF win.mode = <<"active">> THEN <<"Active Mode">> ELSE @,
                 !.maximized = TRUE]
    /\ UNCHANGED <<pc, configDict, templatedictionary, lists, treeVars,
                   given, last, built, edits>>

\* Tardis.switchToMdv, lines 228-231
switchToMdv ==
    /\ win.state = "constructed"
    /\ win' = [setCurrentIndex(win, 0) EXCEPT !.viewFormChecked = FALSE]
    /\ UNCHANGED <<pc, configDict, templatedictionary, lists, treeVars,
                   given, last, built, edits>>

\* Tardis.switchToForm, lines 233-236
switchToForm ==
    /\ win.state = "constructed"
    /\ win' = [setCurrentIndex(win, 1) EXCEPT !.viewMdvChecked = FALSE]
    /\ UNCHANGED <<pc, configDict, templatedictionary, lists, treeVars,
                   given, last, built, edits>>

\* the top level window: construction, then show_model and the view switches
NextTardis ==
    \/ \E config \in Configs : \E atom_data \in AtomData : TardisInit(config, atom_data)
    \/ \E model \in Models : show_model(model)
    \/ switchToMdv
    \/ switchToForm

SpecTardis == Init /\ [][NextTardis]_vars

\* the same, with TreeModel.setData also called directly
NextApi ==
    \/ Next
    \/ \E node \in Nodes \ {1} :
          \E column \in (-1)..numColumns(lists[data[node]]) :
             \E value \in EditTexts \cup Range(lists[data[node]]) :
                TreeModelSetData(node, column, value)

SpecApi == Init /\ [][NextApi]_vars

-----------------------------------------------------------------------------
(* Node.getChild and TreeModel.dictFromNode, read off the current tree *)

\* (mutation: the bound test lets the row equal to the number of children through)
getChildInclusive(list, i) ==
    IF i <= Len(list)
    THEN IF 0 <= i /\ i < Len(list) THEN list[i + 1]
         ELSE IF i < 0 /\ -i <= Len(list) THEN list[Len(list) + i + 1]
         ELSE -1
    ELSE 0

\* Node.getChild(i) on the list of children, i counted from 0: the child, 0 for
\* None; children[i] with a negative i counts from the end, and raises
\* IndexError (-1 here) when there are fewer than -i children
getChild(list, i) ==
    IF i < Len(list)
    THEN IF 0 <= i THEN list[i + 1]
         ELSE IF -i <= Len(list) THEN list[Len(list) + i + 1]
         ELSE -1
    ELSE 0

\* line 671: [node.getChild(i) for i in range(node.numChildren())]
childrenOf(node) ==
    [i \in 1..Len(children[node]) |-> getChild(children[node], i - 1)]

RECURSIVE dictFromNode(_), dictFromChildren(_, _, _)

\* (mutation: the disabled children are not left out)
dictFromChildrenAll(nds, i, dictionary) ==
    IF i > Len(nds) THEN dictionary
    ELSE dictFromChildren(nds, i + 1,
             Put(dictionary, getData(lists[data[nds[i]]], 0), dictFromNode(nds[i])))

\* lines 674-678: the loop over the children, from the i-th on
dictFromChildren(nds, i, dictionary) ==
    IF i > Len(nds) THEN dictionary
    ELSE IF nds[i] \in Range(disabledNodes)
    THEN dictFromChildren(nds, i + 1, dictionary)
    ELSE dictFromChildren(nds, i + 1,
             Put(dictionary, getData(lists[data[nds[i]]], 0), dictFromNode(nds[i])))

\* TreeModel.dictFromNode(node): a dict, the first field of the only child, or
\* None when the node has no child (the function ends without a return)
dictFromNode(node) ==
    LET nds == childrenOf(node)
    IN  IF Len(nds) > 1 THEN dictFromChildren(nds, 1, Dict(<<>>))
        ELSE IF Len(nds) = 1
        THEN [t |-> "scalar", s |-> getData(lists[data[nds[1]]], 0)]
        ELSE [t |-> "scalar", s |-> None]

\* the nodes dictFromNode(node) is called on, node included
RECURSIVE visited(_)
visited(node) ==
    {node} \cup
    IF Len(children[node]) > 1
    THEN UNION { visited(c) : c \in Range(children[node]) \ Range(disabledNodes) }
    ELSE {}

-----------------------------------------------------------------------------
(* What the properties below speak of *)

Fields(node) == lists[data[node]]

Disabled == Range(disabledNodes)

\* the leaves that hold the options of a recorded choice key
ChoiceLeaves == {children[typenodes[k]][1] : k \in 1..Len(typenodes)}

OptionsOf(leaf) == DOMAIN siblings[leaf]

SiblingsOf(leaf, option) == Range(siblings[leaf][option])

Selected(leaf) == getData(Fields(leaf), 0)

Built == pc = "ready" /\ last.op = "build"

\* a selection change on the leaf of a recorded choice key has just completed
ChoiceChanged == pc = "ready" /\ last.op = "type"

PairwiseDisjoint(leaf) ==
    \A o1, o2 \in OptionsOf(leaf) :
        o1 # o2 => SiblingsOf(leaf, o1) \cap SiblingsOf(leaf, o2) = {}

\* the names the option list of the template declared for an option key
GivenNames(id) == Range(optionNames(given.L[id]))

\* u supplies, at some depth, a value that is none of the declared option names
RECURSIVE SuppliesInvalidOption(_, _)
SuppliesInvalidOption(u, t) ==
    \E i \in 1..Len(u.items) :
        LET val1 == u.items[i].v
            key == u.items[i].k
        IN  /\ HasKey(t, key)
            /\ \/ /\ Get(t, key).t = "dict"
                  /\ val1.t = "dict"
                  /\ SuppliesInvalidOption(val1, Get(t, key))
               \/ /\ Get(t, key).t = "list"
                  /\ Get(t, key).v.t = "ref"
                  /\ ~(val1.t = "scalar" /\ val1.s \in GivenNames(Get(t, key).v.id))

\* every plain leaf of t that u has a value for holds that value
RECURSIVE PlainLeavesTakeUserValue(_, _)
PlainLeavesTakeUserValue(u, t) ==
    \A i \in 1..Len(u.items) :
        LET val1 == u.items[i].v
            key == u.items[i].k
        IN  HasKey(t, key) =>
              /\ (Get(t, key).t = "dict" /\ val1.t = "dict")
                     => PlainLeavesTakeUserValue(val1, Get(t, key))
              /\ (Get(t, key).t = "list" /\ Get(t, key).v.t = "scalar")
                     => Get(t, key).v = val1

\* u names a plain leaf of t at some depth
RECURSIVE SuppliesPlainLeaf(_, _)
SuppliesPlainLeaf(u, t) ==
    \E i \in 1..Len(u.items) :
        LET val1 == u.items[i].v
            key == u.items[i].k
        IN  /\ HasKey(t, key)
            /\ \/ /\ Get(t, key).t = "dict" /\ val1.t = "dict"
                  /\ SuppliesPlainLeaf(val1, Get(t, key))
               \/ Get(t, key).t = "list" /\ Get(t, key).v.t = "scalar"

\* every option list of t that u selects from has the selected option first
RECURSIVE SelectedOptionsFirst(_, _)
SelectedOptionsFirst(u, t) ==
    \A i \in 1..Len(u.items) :
        LET val1 == u.items[i].v
            key == u.items[i].k
        IN  HasKey(t, key) =>
              /\ (Get(t, key).t = "dict" /\ val1.t = "dict")
                     => SelectedOptionsFirst(val1, Get(t, key))
              /\ (Get(t, key).t = "list" /\ Get(t, key).v.t = "ref")
                     => /\ val1.t = "scalar"
                        /\ lists[Get(t, key).v.id] # <<>>
                        /\ split(lists[Get(t, key).v.id][1], SEP)[1] = val1.s

-----------------------------------------------------------------------------
(* Properties *)

\* C1: in every state reached by build and any sequence of selection changes and
\* TreeModel.setData calls, all siblings of every option of a choice leaf other
\* than the one in field 0 are disabled.
C1_DisabledNeverStale ==
    pc = "ready" =>
        \A leaf \in ChoiceLeaves :
            \A option \in OptionsOf(leaf) \ {Selected(leaf)} :
                SiblingsOf(leaf, option) \subseteq Disabled

\* C2: right after a selection change no sibling of the newly selected option
\* is disabled.
C2_NewSelectionEnabled ==
    ChoiceChanged =>
        SiblingsOf(last.node, last.currentText) \cap Disabled = {}

\* C3: right after build, for every choice leaf, no sibling of the selected
\* option is disabled, the siblings that are not disabled are exactly those no
\* other option lists, and all siblings of the other options are disabled.
C3_BuildDisablesOnlyUnselected ==
    Built =>
        \A leaf \in ChoiceLeaves :
            LET others == UNION {SiblingsOf(leaf, o) :
                                    o \in OptionsOf(leaf) \ {Selected(leaf)}}
                all == UNION {SiblingsOf(leaf, o) : o \in OptionsOf(leaf)}
            IN  /\ SiblingsOf(leaf, Selected(leaf)) \cap Disabled = {}
                /\ all \ Disabled = all \ others
                /\ others \subseteq Disabled

\* C4: right after a selection change to another option, every sibling of the
\* previous selection is disabled.
C4_OldSelectionDisabled ==
    (ChoiceChanged /\ last.currentText # last.firstItem) =>
        SiblingsOf(last.node, last.firstItem) \subseteq Disabled

C4_Witness ==
    /\ ChoiceChanged
    /\ last.currentText # last.firstItem
    /\ SiblingsOf(last.node, last.firstItem)
           \cap SiblingsOf(last.node, last.currentText) # {}

\* C5: a selection change swaps two fields of the leaf: field 0 becomes the
\* chosen option, the former field 0 goes where the chosen option was, and every
\* other field stays.
C5_SelectionSwapsFields ==
    (pc = "ready" /\ last.op \in {"type", "option"}) =>
        LET new == Fields(last.node)
            old == last.oldData
        IN  /\ Len(new) = Len(old)
            /\ new[1] = old[last.column + 1]
            /\ new[last.column + 1] = old[1]
            /\ \A i \in 1..Len(old) : i \notin {1, last.column + 1} => new[i] = old[i]

C5_Witness ==
    /\ ChoiceChanged
    /\ last.column = 1
    /\ Len(last.oldData) = 3
    /\ Fields(last.node) # last.oldData

\* C6: selecting the option that is selected already changes neither the
\* membership of the disabled set nor the fields of the leaf.
C6_ReselectIsNoOp ==
    (ChoiceChanged /\ last.currentText = last.firstItem) =>
        /\ Disabled = Range(last.oldDisabled)
        /\ Fields(last.node) = last.oldData

C6_Witness ==
    /\ ChoiceChanged
    /\ last.currentText = last.firstItem
    /\ \E i, j \in 1..Len(siblings[last.node][last.currentText]) :
          /\ i # j
          /\ siblings[last.node][last.currentText][i]
                = siblings[last.node][last.currentText][j]

\* C7: for a choice leaf with three options of pairwise disjoint siblings:
\* selecting another option B right after build disables the siblings of the two
\* others and enables those of B; selecting the first option again next gives
\* the disabled set the members it had right after build.
C7_Toggle ==
    (/\ ChoiceChanged
     /\ Cardinality(OptionsOf(last.node)) = 3
     /\ PairwiseDisjoint(last.node)) =>
        /\ (last.n = 1 /\ last.currentText # last.firstItem) =>
              /\ \A o \in OptionsOf(last.node) \ {last.currentText} :
                    SiblingsOf(last.node, o) \subseteq Disabled
              /\ SiblingsOf(last.node, last.currentText) \cap Disabled = {}
        /\ (/\ last.n = 2
            /\ last.oldData # built.lists[data[last.node]]
            /\ last.currentText = built.lists[data[last.node]][1]) =>
              Disabled = Range(built.disabledNodes)

C7_Witness ==
    /\ ChoiceChanged
    /\ Cardinality(OptionsOf(last.node)) = 3
    /\ PairwiseDisjoint(last.node)
    /\ last.n = 2
    /\ last.oldData # built.lists[data[last.node]]
    /\ last.currentText = built.lists[data[last.node]][1]
    /\ last.currentText # last.firstItem
    /\ Disabled # {}

\* C8: after a merge that succeeds, every plain leaf of the template that the
\* user configuration names holds the user's value.
C8_PlainLeafOverwritten ==
    pc = "merged" => PlainLeavesTakeUserValue(configDict, templatedictionary)

\* C9: after a merge that succeeds, for every option list the user configuration
\* selects from, the option whose name is the user's value is first in the list.
C9_SelectedOptionFirst ==
    pc = "merged" => SelectedOptionsFirst(configDict, given.T)

C9_Witness ==
    /\ pc = "merged"
    /\ lists # given.L

\* C10: when the user configuration gives an option key a value that is none of
\* its option names, the merge raises and no tree is made.
C10_InvalidOptionRaises ==
    (pc # "start" /\ SuppliesInvalidOption(configDict, given.T)) =>
        /\ pc = "error"
        /\ parent = <<>> /\ children = <<>> /\ data = <<>>
        /\ disabledNodes = <<>> /\ typenodes = <<>>

C10_Witness ==
    /\ pc = "error"
    /\ SuppliesInvalidOption(configDict, given.T)


\* u has, at this level or below, a key that t lacks at that level
RECURSIVE SuppliesUnknownKey(_, _)
SuppliesUnknownKey(u, t) ==
    \E i \in 1..Len(u.items) :
        LET val1 == u.items[i].v
            key == u.items[i].k
        IN  \/ ~HasKey(t, key)
            \/ /\ Get(t, key).t = "dict" /\ val1.t = "dict"
               /\ SuppliesUnknownKey(val1, Get(t, key))

\* every key of u that g lacks at that level is in t as [False, value], and
\* every key of g is a key of t, at this level and at every level u descends to
RECURSIVE UnknownKeysAppended(_, _, _)
UnknownKeysAppended(u, g, t) ==
    /\ \A j \in 1..Len(g.items) :
          /\ HasKey(t, g.items[j].k)
          /\ Get(t, g.items[j].k).t = g.items[j].v.t
    /\ \A i \in 1..Len(u.items) :
          LET val1 == u.items[i].v
              key == u.items[i].k
          IN  /\ ~HasKey(g, key) =>
                    /\ HasKey(t, key)
                    /\ Get(t, key) = [t |-> "list", req |-> FALSE, v |-> val1]
              /\ (HasKey(g, key) /\ Get(g, key).t = "dict" /\ val1.t = "dict") =>
                    /\ HasKey(t, key)
                    /\ Get(t, key).t = "dict"
                    /\ UnknownKeysAppended(val1, Get(g, key), Get(t, key))

\* t has, at some depth, a [required, default] entry whose required flag is set
RECURSIVE HasRequiredKey(_)
HasRequiredKey(t) ==
    \E i \in 1..Len(t.items) :
        \/ t.items[i].v.t = "list" /\ t.items[i].v.req
        \/ t.items[i].v.t = "dict" /\ HasRequiredKey(t.items[i].v)

\* C11: when matchDicts raises the validation error, the template the caller
\* passed is as it was before the call: no key processed before the error is
\* left reordered, overwritten or inserted, at any nesting level.
C11_NoPartialMutation ==
    pc = "error" => (templatedictionary = given.T /\ lists = given.L)

\* C12: after matchDicts, every key of the user configuration that the template
\* lacked at that level (at any level the recursion descends to) is in the
\* template as [False, value]; every key the template had is still there, and a
\* configuration with unknown keys raises only if it also selects an invalid
\* option.
C12_UnknownKeysAppended ==
    /\ pc \in {"merged", "ready"} =>
          UnknownKeysAppended(configDict, given.T, templatedictionary)
    /\ (pc = "error" /\ SuppliesUnknownKey(configDict, given.T)) =>
          SuppliesInvalidOption(configDict, given.T)

\* a merge has completed for a configuration with an unknown key below the top
\* level
C12_Witness ==
    /\ pc = "merged"
    /\ \E i \in 1..Len(configDict.items) :
          LET val1 == configDict.items[i].v
              key == configDict.items[i].k
          IN  /\ HasKey(given.T, key)
              /\ Get(given.T, key).t = "dict" /\ val1.t = "dict"
              /\ SuppliesUnknownKey(val1, Get(given.T, key))

\* C13: matchDicts raises no error because the user configuration omits keys
\* the template marks as required; for an empty user configuration it succeeds
\* and leaves the template as it was.
C13_OmittedKeysAccepted ==
    /\ (pc # "start" /\ ~SuppliesInvalidOption(configDict, given.T)) => pc # "error"
    /\ (pc = "merged" /\ configDict.items = <<>>) =>
          (templatedictionary = given.T /\ lists = given.L)

\* the merge of an empty configuration into a template with required keys has
\* completed
C13_Witness ==
    /\ pc = "merged"
    /\ configDict.items = <<>>
    /\ HasRequiredKey(given.T)


\* the child of parent whose first field is name
ChildNamed(p, name) ==
    CHOOSE c \in Range(children[p]) : getData(Fields(c), 0) = <<name>>

HasChildNamed(p, name) ==
    \E c \in Range(children[p]) : getData(Fields(c), 0) = <<name>>

\* the keys of a dict
Keys(d) == { d.items[i].k : i \in 1..Len(d.items) }

\* the key-to-value shape of a template: a mapping for a mapping, the default
\* for a [required, default], the first option name for an option list
RECURSIVE valueShape(_)
valueShape(v) ==
    IF v.t = "dict"
    THEN Dict([i \in 1..Len(v.items) |->
                 [k |-> v.items[i].k, v |-> valueShape(v.items[i].v)]])
    ELSE IF v.t = "list"
    THEN IF v.v.t = "ref"
         THEN [t |-> "scalar",
               s |-> IF lists[v.v.id] = <<>> THEN None
                     ELSE split(lists[v.v.id][1], SEP)[1]]
         ELSE v.v
    ELSE v

\* the user configuration of the density example
ExampleConfig ==
    Dict(<<Item("density", Dict(<<Item("type", Scalar("exponential")),
                                  Item("time_0", Scalar("5")),
                                  Item("rho_0", Scalar("2"))>>))>>)

C15_RoundTrip ==
    (Built /\ disabledNodes = <<>>) =>
        dictFromNode(1) = valueShape(templatedictionary)

\* C16: in every tree built from a merged template, dictFromNode from the root
\* is never called on a node without children.
C16_NoChildlessNodeReached ==
    Built => \A node \in visited(1) : Len(children[node]) >= 1

\* C17: the density example. After merge and build the type leaf holds
\* [exponential, uniform], the node of value is disabled and those of time_0
\* and rho_0 are not, and dictFromNode of the density node is
\* {type: exponential, time_0: 5, rho_0: 2}.
C17_DensityExample ==
    (Built /\ given.T = DensityCase(ExampleConfig).T /\ configDict = ExampleConfig) =>
        LET density == ChildNamed(1, "density")
        IN  /\ HasChildNamed(1, "density")
            /\ Fields(children[ChildNamed(density, "type")][1])
                  = << <<"exponential">>, <<"uniform">> >>
            /\ ChildNamed(density, "value") \in Disabled
            /\ ChildNamed(density, "time_0") \notin Disabled
            /\ ChildNamed(density, "rho_0") \notin Disabled
            /\ dictFromNode(density) =
                  Dict(<<Item("type", Scalar("exponential")),
                         Item("time_0", Scalar("5")),
                         Item("rho_0", Scalar("2"))>>)


\* C18: the item of a node is not editable (it has no flag at all) when the
\* node or its parent is disabled; otherwise a node without children is
\* editable, enabled and selectable, and a node with children is enabled and
\* selectable but not editable.
C18_Editability ==
    pc = "ready" =>
      \A node \in Nodes \ {1} :
        IF node \in Disabled \/ parent[node] \in Disabled
        THEN ~Editable(node) /\ flags(node) = {}
        ELSE /\ {"ItemIsEnabled", "ItemIsSelectable"} \subseteq flags(node)
             /\ Editable(node) <=> children[node] = <<>>

\* a leaf that is not in the disabled list hangs below a disabled key node,
\* next to an enabled key node and its enabled leaf
C18_Witness ==
    /\ pc = "ready"
    /\ \E node \in Nodes \ {1} :
          /\ node \notin Disabled
          /\ parent[node] \in Disabled
          /\ children[node] = <<>>
    /\ \E node \in Nodes \ {1} :
          /\ children[node] = <<>>
          /\ node \notin Disabled
          /\ parent[node] \notin Disabled
          /\ parent[parent[node]] # 0


\* C19: TreeModel.setData(node, column, value) returns False and leaves the
\* fields as they are when column is negative or not below the number of
\* fields; otherwise it returns True, the field at column is value and the other
\* fields are as before. In both cases no other node, list or disabled entry
\* changes, and dataChanged is emitted exactly when the call returns True.
C19_SetField ==
    [][ (last'.op = "setData" /\ edits' = edits + 1) =>
          LET node == last'.node
              column == last'.column
              value == last'.currentText
              old == lists[data[node]]
              new == lists'[data[node]]
          IN  /\ last'.result = (0 <= column /\ column < Len(old))
              /\ last'.emitted = last'.result
              /\ Len(new) = Len(old)
              /\ \A j \in 1..Len(old) :
                    new[j] = IF last'.result /\ j = column + 1 THEN value ELSE old[j]
              /\ DOMAIN lists' = DOMAIN lists
              /\ \A id \in DOMAIN lists : id # data[node] => lists'[id] = lists[id]
              /\ UNCHANGED <<parent, children, data, siblings, disabledNodes,
                             typenodes, templatedictionary>>
      ]_vars

\* a call with the column equal to the number of fields of a node with several
\* fields has returned
C19_Witness ==
    /\ pc = "ready"
    /\ last.op = "setData"
    /\ Len(last.oldData) > 1
    /\ last.column = Len(last.oldData)
    /\ ~last.result


\* C20: Node.getChild(row) is None for every row at or past the number of
\* children and the row-th child for every row below it; Node.getData(column)
\* is None for every column at or past the number of fields and the column-th
\* field for every column below it; neither is an error.
C20_PastTheEndIsNone ==
    pc = "ready" =>
      \A node \in Nodes :
        /\ \A row \in 0..(Len(children[node]) + Beyond) :
              getChild(children[node], row) =
                 IF row >= Len(children[node]) THEN 0 ELSE children[node][row + 1]
        /\ \A column \in 0..(Len(Fields(node)) + Beyond) :
              getData(Fields(node), column) =
                 IF column >= Len(Fields(node)) THEN None ELSE Fields(node)[column + 1]

\* the tree has a node with several children and a node with several fields,
\* asked for the child and the field just past the end
C20_Witness ==
    /\ pc = "ready"
    /\ \E node \in Nodes :
          /\ Len(children[node]) > 1
          /\ getChild(children[node], Len(children[node])) = 0
    /\ \E node \in Nodes :
          /\ Len(Fields(node)) > 1
          /\ getData(Fields(node), Len(Fields(node))) = None


\* C21: constructing the window with a configuration always raises
\* TemporarilyUnavaliable: no constructed window is in the active mode, whatever
\* is called on it afterwards, and a window constructed without a configuration
\* is in the passive mode.
C21_ActiveModeRaises ==
    /\ (win.state # "none" /\ win.config # None) =>
          (win.state = "raised" /\ ~win.central)
    /\ win.state = "constructed" => win.mode # <<"active">>
    /\ (win.state # "none" /\ win.config = None) =>
          (win.state = "constructed" /\ win.mode = <<"passive">>)

\* a construction with a configuration and atom data has raised
C21_Witness ==
    /\ win.state = "raised"
    /\ win.config # None
    /\ win.atom_data # None
    /\ win.mode = <<"active">>


\* the leaves treeFromNode made below node for the [required, default] entries
\* of dictionary, taking the children of node in the order of its keys
RECURSIVE LeafNodes(_, _)
LeafNodes(dictionary, node) ==
    UNION { LET val == dictionary.items[i].v
                child == children[node][i]
            IN  IF val.t = "dict" THEN LeafNodes(val, child)
                ELSE IF val.t = "list" THEN Range(children[child])
                ELSE {}
            : i \in 1..Len(dictionary.items) }

\* following parent from node reaches the root within k steps
RECURSIVE ClimbsToRoot(_, _)
ClimbsToRoot(node, k) ==
    IF node = 1 THEN TRUE
    ELSE IF k = 0 \/ node \notin Nodes THEN FALSE
    ELSE ClimbsToRoot(parent[node], k - 1)

\* C22: in every state of the tree, after the build and after any edits and
\* selection changes, the root has no parent, every other node has exactly one
\* parent and is listed exactly once among that parent's children and nowhere
\* else, following parents always ends at the root, and the leaf that holds a
\* key's value or option names has no children.
C22_StrictTree ==
    pc = "ready" =>
      /\ parent[1] = 0
      /\ Len(children[1]) = Len(templatedictionary.items)
      /\ \A node \in Nodes \ {1} :
            /\ parent[node] \in Nodes
            /\ Cardinality({ i \in DOMAIN children[parent[node]] :
                               children[parent[node]][i] = node }) = 1
            /\ \A p \in Nodes \ {parent[node]} : node \notin Range(children[p])
            /\ ClimbsToRoot(node, Len(parent))
      /\ \A leaf \in LeafNodes(templatedictionary, 1) : children[leaf] = <<>>

\* a selection change has completed on a tree that is at least four levels deep
C22_Witness ==
    /\ pc = "ready"
    /\ last.op = "type"
    /\ \E node \in Nodes :
          /\ parent[node] # 0
          /\ parent[parent[node]] # 0
          /\ parent[parent[parent[node]]] # 0
          /\ parent[parent[parent[parent[node]]]] # 0


\* C23: the build leaves, for every recorded choice key whose leaf holds an
\* option list of the template and every option string of it, the bare option
\* name in the field at the position of that string, and an entry siblings[name] holding exactly the children of the
\* choice key's parent whose key is one of the parameter segments of the string;
\* a segment that names no such child adds nothing.
C23_SiblingMapBuilt ==
    [][ (pc = "merged" /\ pc' = "ready") =>
          \A k \in 1..Len(typenodes') :
            LET node == typenodes'[k]
                leaf == children'[node][1]
                id == data'[leaf]
            IN  id \in DOMAIN lists =>
                /\ Len(lists'[id]) = Len(lists[id])
                /\ \A i \in 1..Len(lists[id]) :
                      LET sibstrings == split(lists[id][i], SEP)
                      IN  /\ lists'[id][i] = sibstrings[1]
                          /\ sibstrings[1] \in DOMAIN siblings'[leaf]
                          /\ Range(siblings'[leaf][sibstrings[1]]) =
                                { c \in Range(children'[parent'[node]]) :
                                    lists'[data'[c]][1] \in Range(Tail(sibstrings)) }
      ]_vars

\* a tree has been built whose choice leaf has an option with a parameter that
\* names none of the siblings, and an option with several parameters that do
C23_Witness ==
    /\ Built
    /\ \E leaf \in ChoiceLeaves :
          LET names == { getData(Fields(c), 0) :
                           c \in Range(children[parent[parent[leaf]]]) }
          IN  /\ \E g \in Range(given.L[data[leaf]]) :
                    Range(Tail(split(g, SEP))) \ names # {}
              /\ \E o \in OptionsOf(leaf) : Cardinality(SiblingsOf(leaf, o)) > 1


\* the key nodes below node whose entry in dictionary is a [required, list] with
\* at least one string in the list, taking the children in the order of the keys
RECURSIVE OptionKeyNodes(_, _)
OptionKeyNodes(dictionary, node) ==
    UNION { LET val == dictionary.items[i].v
                child == children[node][i]
            IN  IF val.t = "dict" THEN OptionKeyNodes(val, child)
                ELSE IF val.t = "list" /\ val.v.t = "ref" /\ given.L[val.v.id] # <<>>
                THEN {child}
                ELSE {}
            : i \in 1..Len(dictionary.items) }

\* the key nodes below node whose key is 'type' and whose entry is a
\* [required, value]
RECURSIVE TypeKeyNodes(_, _)
TypeKeyNodes(dictionary, node) ==
    UNION { LET val == dictionary.items[i].v
                child == children[node][i]
            IN  IF val.t = "dict" THEN TypeKeyNodes(val, child)
                ELSE IF val.t = "list" /\ dictionary.items[i].k = <<"type">>
                THEN {child}
                ELSE {}
            : i \in 1..Len(dictionary.items) }

UnselectedSiblings ==
    UNION { UNION { SiblingsOf(leaf, o) : o \in OptionsOf(leaf) \ {Selected(leaf)} } :
              leaf \in ChoiceLeaves }

\* C25: after the build and any sequence of selection changes, a node is in
\* disabledNodes only if it is a sibling of an option that is not the selected
\* one of its choice leaf; with the converse, the disabled nodes are determined
\* by the current selections, whatever the selections before were.
C25_DisabledOnlyUnselected ==
    pc = "ready" => Disabled = UnselectedSiblings

\* selections have been changed more than once and some node is disabled
C25_Witness ==
    /\ pc = "ready"
    /\ last.op = "type"
    /\ last.n >= 2
    /\ Disabled # {}
    /\ Disabled # Range(built.disabledNodes)


\* node and everything below it
RECURSIVE Subtree(_)
Subtree(node) == {node} \cup UNION { Subtree(c) : c \in Range(children[node]) }

\* C26: in every state, no node of the subtree below a disabled node is
\* editable, at whatever depth: when a disabled sibling is a nested mapping, the
\* leaves of its keys are not editable either.
C26_DisabledSubtreeNotEditable ==
    pc = "ready" =>
      \A d \in Disabled : \A node \in Subtree(d) : ~Editable(node)


\* a and b hold the same items the same number of times
IsPermutation(a, b) ==
    /\ Len(a) = Len(b)
    /\ \A x \in Range(a) \cup Range(b) :
          Cardinality({ i \in DOMAIN a : a[i] = x }) =
          Cardinality({ i \in DOMAIN b : b[i] = x })

\* C27: through the merge, the build and any sequence of selection changes, the
\* option names of every option list of the template, which is also the list
\* of fields of its choice leaf, are a permutation of the names the template
\* declared: none is lost or doubled, and field 0 is one of them.
C27_OptionsPermuted ==
    \A id \in DOMAIN given.L :
        /\ IsPermutation(optionNames(lists[id]), optionNames(given.L[id]))
        /\ lists[id] # <<>> =>
              split(lists[id][1], SEP)[1] \in Range(optionNames(given.L[id]))

\* after a merge that moved an option and a later selection change, a list of
\* three options is in an order the template did not have
C27_Witness ==
    /\ pc = "ready"
    /\ last.op = "type"
    /\ \E id \in DOMAIN given.L :
          /\ Len(lists[id]) > 2
          /\ built.lists[id] # optionNames(given.L[id])
          /\ lists[id] # built.lists[id]
          /\ lists[id] # optionNames(given.L[id])


\* how often x is in the list s
Occurrences(s, x) == Cardinality({ i \in DOMAIN s : s[i] = x })

\* C28: a selection change on a choice leaf changes only the fields of that
\* leaf and the disabled entries of the nodes in that leaf's own sibling lists:
\* the fields of every other node (so the selection of every other choice
\* leaf), the disabled entries of all other nodes, every sibling list, the
\* parents and the children stay as they were.
C28_SelectionChangeFrame ==
    [][ last'.op \in {"type", "option"} =>
          LET leaf == last'.node
              own == UNION { Range(siblings[leaf][o]) : o \in DOMAIN siblings[leaf] }
          IN  /\ DOMAIN lists' = DOMAIN lists
              /\ \A id \in DOMAIN lists : id # data[leaf] => lists'[id] = lists[id]
              /\ \A node \in Nodes \ own :
                    Occurrences(disabledNodes', node) = Occurrences(disabledNodes, node)
              /\ Range(disabledNodes') \subseteq Nodes
              /\ UNCHANGED <<parent, children, data, siblings, typenodes,
                             templatedictionary>>
      ]_vars

\* a selection change has completed on one of two choice leaves while a node
\* outside its sibling lists was disabled
C28_Witness ==
    /\ pc = "ready"
    /\ last.op = "type"
    /\ last.firstItem # last.currentText
    /\ Cardinality(ChoiceLeaves) > 1
    /\ \E node \in Disabled :
          \A o \in DOMAIN siblings[last.node] : node \notin Range(siblings[last.node][o])


\* C29: the build leaves the merged template as it read it: every option list
\* still holds the strings it was declared with, name and parameter names (in
\* the order the merge gave them), and a second TreeModel made from the same
\* template has the same sibling lists and the same disabled nodes as the first.
C29_BuildKeepsTemplate ==
    Built =>
      LET again == TreeModel(templatedictionary, SubSeq(lists, 1, Len(given.L)))
      IN  /\ \A id \in DOMAIN given.L : IsPermutation(lists[id], given.L[id])
          /\ again.siblings = siblings
          /\ again.disabledNodes = disabledNodes


\* u supplies, at some depth, a value that is none of the option names of a
\* template entry that declares at least one option string
RECURSIVE SuppliesUndeclaredOption(_, _)
SuppliesUndeclaredOption(u, t) ==
    \E i \in 1..Len(u.items) :
        LET val1 == u.items[i].v
            key == u.items[i].k
        IN  /\ HasKey(t, key)
            /\ \/ /\ Get(t, key).t = "dict"
                  /\ val1.t = "dict"
                  /\ SuppliesUndeclaredOption(val1, Get(t, key))
               \/ /\ Get(t, key).t = "list"
                  /\ Get(t, key).v.t = "ref"
                  /\ given.L[Get(t, key).v.id] # <<>>
                  /\ ~(val1.t = "scalar" /\ val1.s \in GivenNames(Get(t, key).v.id))

\* C30: matchDicts raises the validation error only for a key whose template
\* entry declares at least one option string and whose user value is none of
\* the option names; an entry whose default is the empty list takes any user
\* value without an error.
C30_EmptyListAcceptsAny ==
    pc = "error" => SuppliesUndeclaredOption(configDict, given.T)

====
